---- MODULE Spec2Model ----
(***************************************************************************)
(* Portfolio rebalancing (Advent of OR 2025): the GAMSPy formulation and   *)
(* its bi-objective solving strategy (advent_of_or_nextmvified/main.py,    *)
(* advent_of_or/advent_of_or.py) and the Xpress pipeline built on the      *)
(* domain model (portfolio_rebalancing*/python_source).                    *)
(*                                                                         *)
(* Units.  All quantities are integers:                                    *)
(*   multipliers, inc, dec, exposure bounds, risk weights, the risk-weight *)
(*   limit and the profit weight alpha are in tenths (10 is 1.0);          *)
(*   profitability and relative costs are in percent (5 is 0.05);          *)
(*   exposures, the z-score, standard deviations and correlations are in   *)
(*   units.  Hence an asset exposure E[a] = SUM exposure * x is in tenths, *)
(*   and profit, transaction cost, net profit and the downside D are in    *)
(*   thousandths.                                                          *)
(*                                                                         *)
(* The solver is external: a solve returns a status and levels.  With a    *)
(* usable status the levels are a point of the solver's candidate grid     *)
(* that satisfies every equation of the model at that moment (an optimal   *)
(* status: one that maximises the objective over them).                    *)
(***************************************************************************)
EXTENDS Integers, Sequences, FiniteSets, TLC

VARIABLES
    segments,      \* input table: sequence of segment rows
    assets,        \* input table: sequence of asset rows
    correlation,   \* input table: [indexed, val], val[<<i, j>>]
    options,       \* configuration: risk_weight_limit, consider_risk, profit_weight, z_score
    grid,          \* the solver's candidate multiplier levels (tenths)
    pc,            \* position of the running program
    equations,     \* model.equations
    alpha,         \* the parameter alpha of the objective (tenths), or NoValue
    profit_lo,     \* profit_objective_variable.lo: <<>> (none) or <<v>>, v in ten-thousandths
    level,         \* levels of the model's variables: [x, inc, dec, D]
    status,        \* status of the last solve, or NoValue
    solves,        \* history: one record per solver invocation
    output,        \* <<>>, or <<o>> once the program has returned its tables o
    program,       \* which program runs: "gamspy" or "xpress"
    original_portfolio,   \* entry_point: the Portfolio from_csv returned
    investment,           \* entry_point: <<>>, or <<d>> once optimize_portfolio returned d
    optimized_portfolio,  \* entry_point: <<>>, or <<p>> once new_portfolio returned p
    raised,        \* the exception that ended the run, or NoValue
    an_asset,      \* an Asset object under a sequence of add_segment calls
    calls          \* the number of add_segment calls made on an_asset

vars == <<segments, assets, correlation, options, grid, pc, equations, alpha,
          profit_lo, level, status, solves, output, program,
          original_portfolio, investment, optimized_portfolio, raised, an_asset,
          calls>>

xvars == <<original_portfolio, investment, optimized_portfolio, raised, an_asset,
           calls>>

gvars == <<equations, alpha, profit_lo>>

inputs == <<segments, assets, correlation, options, grid>>

NoValue == "none"

----------------------------------------------------------------------------
(* Arithmetic helpers *)

Max(a, b) == IF a >= b THEN a ELSE b

Abs(a) == IF a >= 0 THEN a ELSE -a

RECURSIVE SumSet(_, _)
\* The sum of f[e] over e in S.
SumSet(f, S) ==
    IF S = {} THEN 0
    ELSE LET e == CHOOSE e \in S : TRUE IN f[e] + SumSet(f, S \ {e})

Rows(t) == {t[i] : i \in DOMAIN t}

----------------------------------------------------------------------------
(* The GAMSPy container: sets and parameters read from the tables *)

\* A = gp.Set(records=assets["asset"].unique())
A(assetsT) == {r.asset : r \in Rows(assetsT)}

\* AS = gp.Set(domain=[A, S], records=segments[["asset", "segment_id"]])
AS(segT) == {<<r.asset, r.segment_id>> : r \in Rows(segT)}

\* A parameter over [A, S] read from one column of the segments table.
SegParam(segT, col) ==
    [p \in AS(segT) |->
        LET r == CHOOSE r \in Rows(segT) : r.asset = p[1] /\ r.segment_id = p[2]
        IN  r[col]]

\* A parameter over A read from one column of the assets table.
AssetParam(assetsT, col) ==
    [a \in A(assetsT) |->
        LET r == CHOOSE r \in Rows(assetsT) : r.asset = a IN r[col]]

\* current_asset_exposure = segments.groupby("asset")["exposure"].sum()
current_asset_exposure(segT, assetsT) ==
    [a \in A(assetsT) |->
        LET own == {p \in AS(segT) : p[1] = a}
        IN  SumSet(SegParam(segT, "exposure"), own)]

\* portfolio_exposure_vars.lo[A] = (1 - lo_a[A]) * current_asset_exposure[A]
ExposureLo(dec, cur) == (10 - dec) * cur

\* Variant: the upper bound is half the current exposure too wide.
ExposureUpWidened(inc, cur) == (10 + inc + 5) * cur

\* portfolio_exposure_vars.up[A] = (1 + up_a[A]) * current_asset_exposure[A]
ExposureUp(inc, cur) == (10 + inc) * cur

\* The data of the optimisation problem as main() reads it from the tables.
GamsData(segT, assetsT, corr, opts) ==
    LET cur == current_asset_exposure(segT, assetsT)
        lo_a == AssetParam(assetsT, "max_exposure_decrease")
        up_a == AssetParam(assetsT, "max_exposure_increase")
    IN  [pairs |-> AS(segT),
         assetIds |-> A(assetsT),
         exposure |-> SegParam(segT, "exposure"),
         profitability |-> SegParam(segT, "average_profitability"),
         r |-> SegParam(segT, "risk_weight"),
         rel_sell_cost |-> SegParam(segT, "rel_sell_cost"),
         rel_origination_cost |-> SegParam(segT, "rel_origination_cost"),
         lo |-> [a \in A(assetsT) |-> ExposureLo(lo_a[a], cur[a])],
         up |-> [a \in A(assetsT) |-> ExposureUp(up_a[a], cur[a])],
         profit_stdev |-> AssetParam(assetsT, "stdev_profitability"),
         correlation_matrix |-> corr.val,
         risk_weight_limit |-> opts.risk_weight_limit,
         z_score |-> opts.z_score]

----------------------------------------------------------------------------
(* The formulation: expressions and equations over a point pt = [x, inc,   *)
(* dec, D] of problem data d.                                              *)

\* sum over the asset's segments of exposure * segment_vars (asset_exposure)
AssetExposure(d, x, a) ==
    SumSet([p \in d.pairs |-> d.exposure[p] * x[p]], {p \in d.pairs : p[1] = a})

\* sum over A of portfolio_exposure_vars (total_exposure)
TotalExposure(d, x) ==
    SumSet([a \in d.assetIds |-> AssetExposure(d, x, a)], d.assetIds)

\* sum over AS of r * exposure * segment_vars
RiskWeightedExposure(d, x) ==
    SumSet([p \in d.pairs |-> d.r[p] * d.exposure[p] * x[p]], d.pairs)

\* profit = sum over AS of profitability * exposure * segment_vars
Profit(d, x) ==
    SumSet([p \in d.pairs |-> d.profitability[p] * d.exposure[p] * x[p]], d.pairs)

\* transaction_cost = sum of origination cost * exposure * inc + sell cost * exposure * dec
TransactionCost(d, pt) ==
    SumSet([p \in d.pairs |->
                d.rel_origination_cost[p] * d.exposure[p] * pt.inc[p]
              + d.rel_sell_cost[p] * d.exposure[p] * pt.dec[p]], d.pairs)

\* profit - transaction_cost == profit_objective_variable (profit_equation)
NetProfit(d, pt) == Profit(d, pt.x) - TransactionCost(d, pt)

\* The numerator of variance: sum over (A, J) of stdev * stdev * corr * E * E.
VarianceNumerator(d, x) ==
    LET E == [a \in d.assetIds |-> AssetExposure(d, x, a)]
        PairsAJ == d.assetIds \X d.assetIds
    IN  SumSet([ij \in PairsAJ |->
                  d.profit_stdev[ij[1]] * d.profit_stdev[ij[2]]
                * d.correlation_matrix[ij] * E[ij[1]] * E[ij[2]]], PairsAJ)

\* Variant: the equation is left out of the model.
SegmentRelationshipDropped(xv, incv, decv) == TRUE

\* segment_vars == 1 + segment_increase_vars - segment_decrease_vars
SegmentRelationship(xv, incv, decv) == xv = 10 + incv - decv

\* type="Positive": the three variables of a pair have lower bound 0
PositiveVars(xv, incv, decv) == xv >= 0 /\ incv >= 0 /\ decv >= 0

\* Variant: the constraint is left out of the model.
RiskWeightDropped(d, x) == TRUE

\* sum of r * exposure * x <= risk_weight_limit * new_total_exposure
RiskWeight(d, x) ==
    RiskWeightedExposure(d, x) <= d.risk_weight_limit * TotalExposure(d, x)

\* the bounds lo and up of portfolio_exposure_vars
ExposureBounds(d, x) ==
    \A a \in d.assetIds :
        /\ d.lo[a] <= AssetExposure(d, x, a)
        /\ AssetExposure(d, x, a) <= d.up[a]

\* z_score * profit * sqrt(variance) <= profit_downside_var, with
\* variance = numerator / (new_total_exposure * new_total_exposure).
\* Undefined (no point satisfies it) when the total exposure is 0 or the
\* variance is negative.  For a positive left-hand side the inequality is
\* compared squared.
RiskEquation(d, pt) ==
    LET T == TotalExposure(d, pt.x)
        Q == VarianceNumerator(d, pt.x)
        zp == d.z_score * Profit(d, pt.x)
    IN  /\ T # 0
        /\ Q >= 0
        /\ pt.D >= 0
        /\ \/ zp <= 0
           \/ Q = 0
           \/ zp * zp * Q <= (pt.D * T) * (pt.D * T)

\* profit_objective_variable.lo: 10 * netProfit >= lo[1] (lo in ten-thousandths)
ProfitLowerBound(d, pt, lo) == lo = <<>> \/ 10 * NetProfit(d, pt) >= lo[1]

\* Variant: the downside enters the objective with the opposite sign.
ObjectiveDownsideSignFlipped(d, pt, al) == al * NetProfit(d, pt) + (10 - al) * pt.D

\* objective = alpha * profit_objective_variable - (1 - alpha) * profit_downside_var
Objective(d, pt, al) == al * NetProfit(d, pt) - (10 - al) * pt.D

----------------------------------------------------------------------------
(* The external solver *)

MaxSlack == 1

MaxDSteps == 3

Usable == {"optimal", "feasible"}

\* Candidate levels of (inc, dec) for multipliers xx: the minimal split of
\* every pair, moved by a slack on the increase side and one on the decrease
\* side.
SplitCandidates(d, xx) ==
    {[inc |-> [p \in d.pairs |-> Max(xx[p] - 10, 0) + 5 * a],
      dec |-> [p \in d.pairs |-> Max(10 - xx[p], 0) + 5 * b]] :
        a \in -1..MaxSlack, b \in -1..MaxSlack}

\* Candidate levels of profit_downside_var.  A column that is in no equation
\* and has objective coefficient 0 stays at its lower bound.
DCandidates(eqs, al) ==
    IF "risk_equation" \in eqs \/ al # 10
    THEN {100 * k : k \in 0..MaxDSteps}
    ELSE {0}

\* The candidate points that satisfy the variable bounds and every equation
\* of eqs.
FeasiblePoints(d, eqs, lo, al) ==
    LET XS == {xx \in [d.pairs -> grid] :
                  /\ ExposureBounds(d, xx)
                  /\ "risk_weight" \in eqs => RiskWeight(d, xx)}
        PointsOf(xx) ==
            {[x |-> xx, inc |-> sp.inc, dec |-> sp.dec, D |-> dv] :
                sp \in SplitCandidates(d, xx), dv \in DCandidates(eqs, al)}
    IN  UNION {{pt \in PointsOf(xx) :
                   /\ \A p \in d.pairs : PositiveVars(pt.x[p], pt.inc[p], pt.dec[p])
                   /\ "segment_relationship" \in eqs =>
                          \A p \in d.pairs :
                              SegmentRelationship(pt.x[p], pt.inc[p], pt.dec[p])
                   /\ "risk_equation" \in eqs => RiskEquation(d, pt)
                   /\ ProfitLowerBound(d, pt, lo)} : xx \in XS}

\* Levels left behind by a solve that found no solution: the solver's last
\* iterate, which need not satisfy anything.
JunkLevels(d, prev) ==
    {prev} \cup
    {[x |-> [p \in d.pairs |-> c], inc |-> [p \in d.pairs |-> 0],
      dec |-> [p \in d.pairs |-> 0], D |-> 0] : c \in grid}

\* model.solve(): the possible (status, levels) of one solver invocation
\* maximising Objective over the model's equations.
Solve(d, eqs, lo, al, prev) ==
    LET F == FeasiblePoints(d, eqs, lo, al)
        best == {pt \in F : \A q \in F : Objective(d, q, al) <= Objective(d, pt, al)}
        failed(st) == {[status |-> st, level |-> j] : j \in JunkLevels(d, prev)}
    IN  failed("error") \cup
        (IF F = {} THEN failed("infeasible")
         ELSE IF al > 10 THEN failed("unbounded")
         ELSE {[status |-> "optimal", level |-> pt] : pt \in best}
              \cup {[status |-> "feasible", level |-> pt] : pt \in F})

----------------------------------------------------------------------------
(* main() of advent_of_or_nextmvified/main.py *)

Data == GamsData(segments, assets, correlation, options)

\* Variant: the risk equation is among the model's equations from the start.
BaseEquationsWithRiskEquation ==
    {"risk_weight", "segment_relationship", "asset_exposure", "total_exposure",
     "profit_equation", "risk_equation"}

BaseEquations ==
    {"risk_weight", "segment_relationship", "asset_exposure", "total_exposure",
     "profit_equation"}

\* Variables are created with level 0.
InitialLevel(d) ==
    [x |-> [p \in d.pairs |-> 0], inc |-> [p \in d.pairs |-> 0],
     dec |-> [p \in d.pairs |-> 0], D |-> 0]

\* Variant: the bound is the fraction rel_tol of the level.
LoweredBoundOfTolerance(netProfit) == <<netProfit * 1>>

\* rel_tol = 0.1; profit_objective_variable.lo = profit_objective_variable.l * (1 - rel_tol)
LoweredBound(netProfit) == <<netProfit * (10 - 1)>>

\* What one solver invocation was given and what it returned.
SolveRecord(d, r, eqs, lo, al, priorities) ==
    [equations |-> eqs, alpha |-> al, priorities |-> priorities, lo |-> lo,
     status |-> r.status, net_profit |-> NetProfit(d, r.level)]

\* Lines 16-191: the container, its sets and parameters, the variables, the
\* equations and the model.
Formulate ==
    /\ program = "gamspy"
    /\ pc = "start"
    /\ correlation' = [correlation EXCEPT !.indexed = TRUE]
    /\ equations' = BaseEquations
    /\ level' = InitialLevel(Data)
    /\ pc' = "main"
    /\ UNCHANGED <<segments, assets, options, grid, alpha, profit_lo, status,
                   solves, output, program, xvars>>

\* Lines 194-196: the profit phase of the lexicographic strategy.
LexProfitPhase ==
    /\ pc = "main"
    /\ options.consider_risk
    /\ options.profit_weight < 0
    /\ alpha' = 10
    /\ \E r \in Solve(Data, equations, profit_lo, 10, level) :
          /\ level' = r.level
          /\ status' = r.status
          /\ solves' = Append(solves, SolveRecord(Data, r, equations, profit_lo, 10, FALSE))
    /\ pc' = "lexicographic"
    /\ UNCHANGED <<inputs, equations, profit_lo, output, program, xvars>>

\* Lines 197-211: the bound on the profit variable, the risk equation and the
\* risk phase.
LexRiskPhase ==
    /\ pc = "lexicographic"
    /\ LET lo == LoweredBound(NetProfit(Data, level))
           eqs == equations \cup {"risk_equation"}
       IN  /\ profit_lo' = lo
           /\ alpha' = 0
           /\ equations' = eqs
           /\ \E r \in Solve(Data, eqs, lo, 0, level) :
                 /\ level' = r.level
                 /\ status' = r.status
                 /\ solves' = Append(solves, SolveRecord(Data, r, eqs, lo, 0, FALSE))
    /\ pc' = "solved"
    /\ UNCHANGED <<inputs, output, program, xvars>>

\* Lines 212-216: the weighted strategy.
Weighted ==
    /\ pc = "main"
    /\ options.consider_risk
    /\ options.profit_weight >= 0
    /\ LET eqs == equations \cup {"risk_equation"}
           al == options.profit_weight
       IN  /\ equations' = eqs
           /\ alpha' = al
           /\ \E r \in Solve(Data, eqs, profit_lo, al, level) :
                 /\ level' = r.level
                 /\ status' = r.status
                 /\ solves' = Append(solves, SolveRecord(Data, r, eqs, profit_lo, al, FALSE))
    /\ pc' = "solved"
    /\ UNCHANGED <<inputs, profit_lo, output, program, xvars>>

\* Lines 217-219: risk ignored.
RiskIgnored ==
    /\ pc = "main"
    /\ ~options.consider_risk
    /\ alpha' = 10
    /\ \E r \in Solve(Data, equations, profit_lo, 10, level) :
          /\ level' = r.level
          /\ status' = r.status
          /\ solves' = Append(solves, SolveRecord(Data, r, equations, profit_lo, 10, FALSE))
    /\ pc' = "solved"
    /\ UNCHANGED <<inputs, equations, profit_lo, output, program, xvars>>

\* Lines 221-240 and build_output: the report of the levels, whatever the
\* status of the solve was.
BuildOutput ==
    /\ pc = "solved"
    /\ LET d == Data
       IN  output' = <<
             [segments |->
                 [p \in d.pairs |->
                     [original_exposure |-> d.exposure[p],
                      segment_multiplier |-> level.x[p],
                      rebalanced_exposure |-> d.exposure[p] * level.x[p]]],
              assets |->
                 [a \in d.assetIds |->
                     [rebalanced_exposure |-> AssetExposure(d, level.x, a)]],
              statistics |->
                 [net_profit |-> NetProfit(d, level),
                  expected_profit |-> Profit(d, level.x),
                  transaction_cost |-> TransactionCost(d, level),
                  optimized_exposure |-> TotalExposure(d, level.x),
                  profit_downside |-> level.D]] >>
    /\ pc' = "done"
    /\ UNCHANGED <<inputs, equations, alpha, profit_lo, level, status, solves, program, xvars>>

----------------------------------------------------------------------------
(* The domain model (domain.py).  A Python dict is [keys, at]: the keys in *)
(* insertion order and the value at each key.  An average risk weight is a *)
(* fraction <<numerator, denominator>> of tenths.                          *)

EmptyDict == [keys |-> <<>>, at |-> <<>>]

DictHas(dct, k) == k \in DOMAIN dct.at

\* dct[k] = v
DictPut(dct, k, v) ==
    [keys |-> IF DictHas(dct, k) THEN dct.keys ELSE Append(dct.keys, k),
     at |-> (k :> v) @@ dct.at]

\* list(dct.values())
DictValues(dct) == [i \in 1..Len(dct.keys) |-> dct.at[dct.keys[i]]]

FracEq(f, g) == f[1] * g[2] = g[1] * f[2]

Segment(segment_id, asset, exposure, profitability, risk_weight, rel_sell_cost, rel_origination_cost) ==
    [segment_id |-> segment_id, asset |-> asset, exposure |-> exposure,
     profitability |-> profitability, risk_weight |-> risk_weight,
     rel_sell_cost |-> rel_sell_cost, rel_origination_cost |-> rel_origination_cost]

\* The defaults of the dataclass fields min_rel_exposure, max_rel_exposure
\* and profit_stdev.
DefaultMinRelExposure == 5

DefaultMaxRelExposure == 15

DefaultProfitStdev == 0

Asset(asset_id, segs, total_exposure, total_profit, total_risk_weighted_assets, average_risk_weight, min_rel_exposure, max_rel_exposure) ==
    [asset_id |-> asset_id, segments |-> segs, total_exposure |-> total_exposure,
     total_profit |-> total_profit,
     total_risk_weighted_assets |-> total_risk_weighted_assets,
     average_risk_weight |-> average_risk_weight,
     min_rel_exposure |-> min_rel_exposure, max_rel_exposure |-> max_rel_exposure,
     profit_stdev |-> DefaultProfitStdev]

\* total_risk_weighted_assets / total_exposure if total_exposure > 0 else 0
AverageRiskWeight(total_risk_weighted_assets, total_exposure) ==
    IF total_exposure > 0 THEN <<total_risk_weighted_assets, total_exposure>>
    ELSE <<0, 1>>

\* Asset.add_segment
add_segment(self, segment) ==
    LET te == self.total_exposure + segment.exposure
        tp == self.total_profit + segment.profitability * segment.exposure
        trwa == self.total_risk_weighted_assets + segment.exposure * segment.risk_weight
    IN  [self EXCEPT
            !.segments = DictPut(self.segments, segment.segment_id, segment),
            !.total_exposure = te,
            !.total_profit = tp,
            !.total_risk_weighted_assets = trwa,
            !.average_risk_weight = AverageRiskWeight(trwa, te)]

\* Variant: the aggregates are those of the last asset alone.
PortfolioTotalsOfLastAsset(assetSeq, i, acc) ==
    IF assetSeq = <<>> THEN acc
    ELSE LET last == assetSeq[Len(assetSeq)]
         IN  [total_exposure |-> last.total_exposure,
              total_profit |-> last.total_profit,
              total_risk_weighted_assets |-> last.total_risk_weighted_assets,
              average_risk_weight |->
                  AverageRiskWeight(last.total_risk_weighted_assets,
                                    last.total_exposure)]

RECURSIVE PortfolioTotals(_, _, _)
\* The loop of Portfolio.__post_init__ over assets.values(), from index i.
PortfolioTotals(assetSeq, i, acc) ==
    IF i > Len(assetSeq) THEN acc
    ELSE LET te == acc.total_exposure + assetSeq[i].total_exposure
             tp == acc.total_profit + assetSeq[i].total_profit
             trwa == acc.total_risk_weighted_assets
                       + assetSeq[i].total_risk_weighted_assets
         IN  PortfolioTotals(assetSeq, i + 1,
                 [total_exposure |-> te, total_profit |-> tp,
                  total_risk_weighted_assets |-> trwa,
                  average_risk_weight |-> AverageRiskWeight(trwa, te)])

\* Portfolio(portfolio_id, assets, correlation_matrix) and its __post_init__
Portfolio(portfolio_id, assetDict, correlation_matrix) ==
    LET t == PortfolioTotals(DictValues(assetDict), 1,
                 [total_exposure |-> 0, total_profit |-> 0,
                  total_risk_weighted_assets |-> 0,
                  average_risk_weight |-> <<0, 1>>])
    IN  [portfolio_id |-> portfolio_id, assets |-> assetDict,
         correlation_matrix |-> correlation_matrix,
         total_exposure |-> t.total_exposure, total_profit |-> t.total_profit,
         total_risk_weighted_assets |-> t.total_risk_weighted_assets,
         average_risk_weight |-> t.average_risk_weight]

----------------------------------------------------------------------------
(* InstanceManager (instance_manager.py) *)

\* from_csv line 25: the Asset built from the first row of an asset
FirstRowAsset(asset_id, segment) ==
    Asset(asset_id, DictPut(EmptyDict, segment.segment_id, segment),
          segment.exposure, segment.exposure * segment.profitability,
          segment.exposure * segment.risk_weight, <<segment.risk_weight, 1>>,
          DefaultMinRelExposure, DefaultMaxRelExposure)

RECURSIVE FromCsvSegments(_, _, _)
\* The loop of from_csv over df_segments.iterrows(), from row i.
FromCsvSegments(df_segments, i, assetDict) ==
    IF i > Len(df_segments) THEN assetDict
    ELSE LET row == df_segments[i]
             asset_id == row.asset
             segment == Segment(row.segment_id, asset_id, row.exposure,
                                row.average_profitability, row.risk_weight,
                                row.rel_sell_cost, row.rel_origination_cost)
             next ==
                 IF ~DictHas(assetDict, asset_id)
                 THEN DictPut(assetDict, asset_id, FirstRowAsset(asset_id, segment))
                 ELSE DictPut(assetDict, asset_id,
                          add_segment(assetDict.at[asset_id], segment))
         IN  FromCsvSegments(df_segments, i + 1, next)

\* Variant: the asset table is not read; every asset keeps the defaults.
FromCsvAssetsSkipped(df_assets, i, assetDict) == assetDict

RECURSIVE FromCsvAssets(_, _, _)
\* The loop of from_csv over df_assets.iterrows(), from row i.
FromCsvAssets(df_assets, i, assetDict) ==
    IF i > Len(df_assets) THEN assetDict
    ELSE LET row == df_assets[i]
             min_rel_exposure == 10 - row.max_exposure_decrease
             max_rel_exposure == 10 + row.max_exposure_increase
             next ==
                 IF DictHas(assetDict, row.asset)
                 THEN DictPut(assetDict, row.asset,
                          [assetDict.at[row.asset] EXCEPT
                              !.min_rel_exposure = min_rel_exposure,
                              !.max_rel_exposure = max_rel_exposure,
                              !.profit_stdev = row.stdev_profitability])
                 ELSE assetDict
         IN  FromCsvAssets(df_assets, i + 1, next)

\* InstanceManager.from_csv
from_csv(df_segments, df_assets, df_correlation_matrix) ==
    Portfolio("input_portfolio",
              FromCsvAssets(df_assets, 1, FromCsvSegments(df_segments, 1, EmptyDict)),
              df_correlation_matrix)

\* Variant: a half is rounded up.
RoundHalfUp(n) == (n + 5) \div 10

\* Python's round(n / 10): to the nearest integer, a half to the even one.
Round(n) ==
    LET q == n \div 10
        r == n % 10
    IN  IF r < 5 THEN q
        ELSE IF r > 5 THEN q + 1
        ELSE IF q % 2 = 0 THEN q ELSE q + 1

\* The (asset, segment) pairs of a portfolio.
PortfolioPairs(portfolio) ==
    UNION {{<<a, sg>> : sg \in DOMAIN portfolio.assets.at[a].segments.at} :
              a \in DOMAIN portfolio.assets.at}

\* Variant: the new Asset is built with the dataclass defaults for its bounds.
RebuiltAssetWithDefaults(asset, new_segment) ==
    FirstRowAsset(asset.asset_id, new_segment)

\* Variant: the new Asset starts from the totals of the original asset and
\* the first new segment is added to them.
RebuiltAssetOnOriginalTotals(asset, new_segment) ==
    add_segment([asset EXCEPT !.segments = EmptyDict, !.profit_stdev = DefaultProfitStdev],
                new_segment)

\* new_portfolio line 53-55: the new Asset built from the first rebuilt
\* segment of an asset, with the bounds of the original asset.
RebuiltAsset(asset, new_segment) ==
    Asset(asset.asset_id, DictPut(EmptyDict, new_segment.segment_id, new_segment),
          new_segment.exposure, new_segment.exposure * new_segment.profitability,
          new_segment.exposure * new_segment.risk_weight,
          <<new_segment.risk_weight, 1>>,
          asset.min_rel_exposure, asset.max_rel_exposure)

RECURSIVE NewPortfolioSegments(_, _, _, _, _)
\* The inner loop of new_portfolio over asset.segments.values(), from index j.
NewPortfolioSegments(asset, segSeq, j, new_distribution, new_assets) ==
    IF j > Len(segSeq) THEN new_assets
    ELSE LET segment == segSeq[j]
             exposure == Round(new_distribution[<<asset.asset_id, segment.segment_id>>]
                                 * segment.exposure)
             new_segment == [segment EXCEPT !.exposure = exposure]
             next ==
                 IF ~DictHas(new_assets, asset.asset_id)
                 THEN DictPut(new_assets, asset.asset_id,
                              RebuiltAsset(asset, new_segment))
                 ELSE DictPut(new_assets, asset.asset_id,
                          add_segment(new_assets.at[asset.asset_id], new_segment))
         IN  NewPortfolioSegments(asset, segSeq, j + 1, new_distribution, next)

RECURSIVE NewPortfolioAssets(_, _, _, _)
\* The outer loop of new_portfolio over portfolio.assets.values(), from index i.
NewPortfolioAssets(assetSeq, i, new_distribution, new_assets) ==
    IF i > Len(assetSeq) THEN new_assets
    ELSE NewPortfolioAssets(assetSeq, i + 1, new_distribution,
             NewPortfolioSegments(assetSeq[i], DictValues(assetSeq[i].segments), 1,
                                  new_distribution, new_assets))

\* Variant: the rounded exposure is written into the Segment of the
\* portfolio that was passed in.
PortfolioWrittenInPlace(portfolio, new_distribution) ==
    LET rounded(a, segment) ==
            IF <<a, segment.segment_id>> \in DOMAIN new_distribution
            THEN [segment EXCEPT
                     !.exposure = Round(new_distribution[<<a, segment.segment_id>>]
                                          * segment.exposure)]
            ELSE segment
        written(asset) ==
            [asset EXCEPT
                !.segments.at = [k \in DOMAIN asset.segments.at |->
                                    rounded(asset.asset_id, asset.segments.at[k])]]
    IN  [portfolio EXCEPT
            !.assets.at = [a \in DOMAIN portfolio.assets.at |->
                              written(portfolio.assets.at[a])]]

\* new_portfolio line 48-50: the exposure is assigned on a Segment built
\* anew from the fields of the original one, so the portfolio passed in is
\* after the call what it was before.
PortfolioAfterNewPortfolio(portfolio, new_distribution) == portfolio

\* InstanceManager.new_portfolio: the new Portfolio, or the KeyError of the
\* first lookup of a pair that new_distribution does not hold; original is
\* the portfolio passed in, as the call leaves it.
new_portfolio(portfolio, new_distribution) ==
    IF \E p \in PortfolioPairs(portfolio) : p \notin DOMAIN new_distribution
    THEN [raised |-> "KeyError", portfolio |-> NoValue,
          original |-> PortfolioAfterNewPortfolio(portfolio, new_distribution)]
    ELSE [raised |-> NoValue,
          original |-> PortfolioAfterNewPortfolio(portfolio, new_distribution),
          portfolio |->
              Portfolio("optimized_portfolio",
                        NewPortfolioAssets(DictValues(portfolio.assets), 1,
                                           new_distribution, EmptyDict),
                        NoValue)]

\* Portfolio.to_tables: the segment rows and the asset rows, in dict order.
to_tables(self) ==
    LET assetSeq == DictValues(self.assets)
        segRows(asset) ==
            LET sq == DictValues(asset.segments)
            IN  [j \in 1..Len(sq) |->
                    [asset |-> asset.asset_id, segment_id |-> sq[j].segment_id,
                     exposure |-> sq[j].exposure, profitability |-> sq[j].profitability,
                     risk_weight |-> sq[j].risk_weight,
                     rel_sell_cost |-> sq[j].rel_sell_cost,
                     rel_origination_cost |-> sq[j].rel_origination_cost]]
        Concat[i \in 0..Len(assetSeq)] ==
            IF i = 0 THEN <<>> ELSE Concat[i - 1] \o segRows(assetSeq[i])
    IN  [df_segments |-> Concat[Len(assetSeq)],
         df_assets |->
            [i \in 1..Len(assetSeq) |->
                [asset |-> assetSeq[i].asset_id,
                 total_exposure |-> assetSeq[i].total_exposure,
                 total_profit |-> assetSeq[i].total_profit,
                 average_risk_weight |-> assetSeq[i].average_risk_weight,
                 min_rel_exposure |-> assetSeq[i].min_rel_exposure,
                 max_rel_exposure |-> assetSeq[i].max_rel_exposure]]]

----------------------------------------------------------------------------
(* optimize_portfolio (portfolio_optimizer.py) and solve_optimization      *)
(* (entry_point.py)                                                        *)

\* The data of the optimisation problem as optimize_portfolio reads it from
\* the Portfolio object.
XpData(portfolio, opts) ==
    LET assetDict == portfolio.assets
        seg(p) == assetDict.at[p[1]].segments.at[p[2]]
        ids == DOMAIN assetDict.at
        prs == PortfolioPairs(portfolio)
    IN  [pairs |-> prs,
         assetIds |-> ids,
         exposure |-> [p \in prs |-> seg(p).exposure],
         profitability |-> [p \in prs |-> seg(p).profitability],
         r |-> [p \in prs |-> seg(p).risk_weight],
         rel_sell_cost |-> [p \in prs |-> seg(p).rel_sell_cost],
         rel_origination_cost |-> [p \in prs |-> seg(p).rel_origination_cost],
         lo |-> [a \in ids |->
                    assetDict.at[a].min_rel_exposure * assetDict.at[a].total_exposure],
         up |-> [a \in ids |->
                    assetDict.at[a].max_rel_exposure * assetDict.at[a].total_exposure],
         profit_stdev |-> [a \in ids |-> assetDict.at[a].profit_stdev],
         correlation_matrix |-> portfolio.correlation_matrix.val,
         risk_weight_limit |-> opts.risk_weight_limit,
         z_score |-> opts.z_score]

\* The constraints of the problem: lines 50-71, and with consider_risk the
\* downside constraint of line 90.
XpConstraints(consider_risk) ==
    {"segment_relationship", "total_exposure", "risk_weight", "asset_exposure"}
        \cup (IF consider_risk THEN {"risk_equation"} ELSE {})

\* The weight of objective 0 (net profit): profit_weight in the weighted
\* setting, 1 with priorities and when risk is ignored.
XpAlpha(consider_risk, profit_weight) ==
    IF consider_risk /\ profit_weight >= 0 THEN profit_weight ELSE 10

\* setObjective with priorities (line 102-103): the net profit first, then
\* the downside among the points whose net profit is within reltol = 0.1 of
\* the best one.
XpPriorities(consider_risk, profit_weight) == consider_risk /\ profit_weight < 0

\* model.optimize() with priorities: one invocation that maximises objective
\* 0, then minimises objective 1 without degrading objective 0 by more than
\* reltol * |best|.
SolvePriorities(d, eqs, prev) ==
    LET F == FeasiblePoints(d, eqs, <<>>, 0)
        star == CHOOSE v \in {NetProfit(d, pt) : pt \in F} :
                    \A pt \in F : NetProfit(d, pt) <= v
        F2 == {pt \in F : 10 * NetProfit(d, pt) >= 10 * star - Abs(star)}
        best == {pt \in F2 : \A q \in F2 : pt.D <= q.D}
        failed(st) == {[status |-> st, level |-> j] : j \in JunkLevels(d, prev)}
    IN  failed("error") \cup
        (IF F = {} THEN failed("infeasible")
         ELSE {[status |-> "optimal", level |-> pt] : pt \in best}
              \cup {[status |-> "feasible", level |-> pt] : pt \in F2})

\* _, solstatus = model.optimize()
XpOptimize(d, consider_risk, profit_weight) ==
    IF XpPriorities(consider_risk, profit_weight)
    THEN SolvePriorities(d, XpConstraints(consider_risk), InitialLevel(d))
    ELSE Solve(d, XpConstraints(consider_risk), <<>>,
               XpAlpha(consider_risk, profit_weight), InitialLevel(d))

\* Lines 117-132: investment = {} and, with a usable status only,
\* investment = model.getSolution(segment_vars).
Investment(r) == IF r.status \in Usable THEN r.level.x ELSE <<>>

\* Line 124 divides by z_score * profit.  With a zero divisor the division
\* raises ZeroDivisionError or yields inf/nan, depending on the number types
\* the library returns.
SolutionProcessing(d, r) ==
    IF r.status \in Usable /\ d.z_score * Profit(d, r.level.x) = 0
    THEN {NoValue, "ZeroDivisionError"}
    ELSE {NoValue}

\* entry_point.py line 15-16: manager.from_csv
XFromCsv ==
    /\ program = "xpress"
    /\ pc = "start"
    /\ original_portfolio' = from_csv(segments, assets, correlation)
    /\ pc' = "loaded"
    /\ UNCHANGED <<inputs, gvars, level, status, solves, output, program, investment,
                   optimized_portfolio, raised, an_asset, calls>>

\* entry_point.py line 19-26: optimize_portfolio, the whole function
XOptimize ==
    /\ pc = "loaded"
    /\ LET d == XpData(original_portfolio, options)
           cr == options.consider_risk
           pw == options.profit_weight
       IN  \E r \in XpOptimize(d, cr, pw) :
              /\ level' = r.level
              /\ status' = r.status
              /\ solves' = Append(solves,
                               SolveRecord(d, r, XpConstraints(cr), <<>>,
                                           XpAlpha(cr, pw), XpPriorities(cr, pw)))
              /\ \E e \in SolutionProcessing(d, r) :
                    /\ raised' = e
                    /\ investment' = IF e = NoValue THEN <<Investment(r)>> ELSE investment
                    /\ pc' = IF e = NoValue THEN "optimized" ELSE "raised"
    /\ UNCHANGED <<inputs, gvars, output, program, original_portfolio,
                   optimized_portfolio, an_asset, calls>>

\* entry_point.py line 27: manager.new_portfolio
XNewPortfolio ==
    /\ pc = "optimized"
    /\ LET res == new_portfolio(original_portfolio, investment[1])
       IN  /\ raised' = res.raised
           /\ optimized_portfolio' =
                 IF res.raised = NoValue THEN <<res.portfolio>> ELSE <<>>
           /\ original_portfolio' = res.original
           /\ pc' = IF res.raised = NoValue THEN "rebuilt" ELSE "raised"
    /\ UNCHANGED <<inputs, gvars, level, status, solves, output, program,
                   investment, an_asset, calls>>

\* entry_point.py line 30-32: optimized_portfolio.to_tables and the return
XToTables ==
    /\ pc = "rebuilt"
    /\ output' = <<to_tables(optimized_portfolio[1])>>
    /\ pc' = "done"
    /\ UNCHANGED <<inputs, gvars, level, status, solves, program, original_portfolio,
                   investment, optimized_portfolio, raised, an_asset, calls>>

\* InsightApp.run line 129-133: the result columns of self.Segments and
\* self.Assets, filled from the tables solve_optimization returned:
\* pd.Series(list(df[column]), index=Index) gives the n-th value of the list
\* to the n-th label of the index, and raises ValueError when the list is not
\* as long as the index.
XReport ==
    /\ program = "xpress"
    /\ pc = "done"
    /\ LET df_result == output[1].df_segments
           df_assets == output[1].df_assets
           seg(i) == df_result[i]
           ast(j) == df_assets[j]
       IN  IF Len(df_result) # Len(segments) \/ Len(df_assets) # Len(assets)
           THEN /\ raised' = "ValueError"
                /\ output' = output
                /\ pc' = "raised"
           ELSE /\ raised' = raised
                /\ output' =
                      Append(output,
                          [Segments |->
                              [i \in DOMAIN segments |->
                                  [segment_id |-> segments[i].segment_id,
                                   asset |-> segments[i].asset,
                                   exposure |-> segments[i].exposure,
                                   optimized_exposure |-> seg(i).exposure,
                                   exposure_change |->
                                       seg(i).exposure - segments[i].exposure]],
                           Assets |->
                              [j \in DOMAIN assets |->
                                  [asset |-> assets[j].asset,
                                   optimized_exposure |-> ast(j).total_exposure,
                                   average_risk_weight |->
                                       ast(j).average_risk_weight]]])
                /\ pc' = "reported"
    /\ UNCHANGED <<inputs, gvars, level, status, solves, program, original_portfolio,
                   investment, optimized_portfolio, an_asset, calls>>

----------------------------------------------------------------------------
(* An Asset under add_segment calls *)

MaxCalls == 3

\* Asset(asset_id): the dataclass defaults
NewAsset(asset_id) ==
    Asset(asset_id, EmptyDict, 0, 0, 0, <<0, 1>>, DefaultMinRelExposure,
          DefaultMaxRelExposure)

SegmentPool ==
    {Segment(id, "A1", e, 2, rw, 0, 0) : id \in {"s1", "s2"}, e \in {0, 1, 2},
                                         rw \in {2, 6}}

\* asset.add_segment(segment)
AddSegment ==
    /\ program = "asset"
    /\ calls < MaxCalls
    /\ \E segment \in SegmentPool : an_asset' = add_segment(an_asset, segment)
    /\ calls' = calls + 1
    /\ UNCHANGED <<inputs, gvars, pc, level, status, solves, output, program,
                   original_portfolio, investment, optimized_portfolio, raised>>

----------------------------------------------------------------------------
(* Inputs *)

SegRow(id, a, e, p, rw, sc, oc) ==
    [segment_id |-> id, asset |-> a, exposure |-> e, average_profitability |-> p,
     risk_weight |-> rw, rel_sell_cost |-> sc, rel_origination_cost |-> oc]

AssetRow(a, dec, inc, sd) ==
    [asset |-> a, max_exposure_decrease |-> dec, max_exposure_increase |-> inc,
     stdev_profitability |-> sd]

AssetIds == {"A1", "A2"}

Corr(off) ==
    [indexed |-> FALSE,
     val |-> [ij \in AssetIds \X AssetIds |-> IF ij[1] = ij[2] THEN 1 ELSE off]]

\* A table whose entry above the diagonal differs from the one below it.
CorrAsymmetric ==
    [indexed |-> FALSE,
     val |-> [ij \in AssetIds \X AssetIds |->
                 IF ij[1] = ij[2] \/ ij = <<"A1", "A2">> THEN 1 ELSE 0]]

\* Three segments, two of them in asset A1.
SegmentTables ==
    {<<SegRow("s1", "A1", 1, 2, 2, c, c),
       SegRow("s2", "A1", 1, 3, 6, c, c),
       SegRow("s3", "A2", 2, p3, 2, c, c)>> : c \in {0, 1}, p3 \in {-1, 2}}

AssetTables ==
    {<<AssetRow("A1", 5, 5, 1), AssetRow("A2", b, b, 1)>> : b \in {0, 5}}

OptionSets ==
    {[risk_weight_limit |-> l, consider_risk |-> m[1], profit_weight |-> m[2],
      z_score |-> 2] :
        l \in {1, 4},
        m \in {<<FALSE, -10>>, <<TRUE, -10>>, <<TRUE, 0>>, <<TRUE, 5>>,
               <<TRUE, 10>>, <<TRUE, 15>>}}

\* The input tables and options of a run on symmetric correlations.
SymmetricInputs ==
    /\ segments \in SegmentTables
    /\ assets \in AssetTables
    /\ correlation \in {Corr(0), Corr(1)}
    /\ options \in OptionSets
    /\ grid = {-5, 5, 10, 15}

\* The inputs of a run with risk on the correlation table that is not
\* symmetric.
AsymmetricInputs ==
    /\ segments = <<SegRow("s1", "A1", 1, 2, 2, 0, 0),
                    SegRow("s2", "A1", 1, 3, 6, 0, 0),
                    SegRow("s3", "A2", 2, 2, 2, 0, 0)>>
    /\ assets = <<AssetRow("A1", 5, 5, 1), AssetRow("A2", 5, 5, 1)>>
    /\ correlation = CorrAsymmetric
    /\ options \in {o \in OptionSets :
                      /\ o.consider_risk
                      /\ o.risk_weight_limit = 4
                      /\ o.profit_weight \in {-10, 5}}
    /\ grid = {-5, 5, 10, 15}

\* The inputs of a run whose risk_weight_limit is negative (-0.1).
OutOfRangeInputs ==
    /\ segments = <<SegRow("s1", "A1", 1, 2, 2, 0, 0),
                    SegRow("s2", "A1", 1, 3, 6, 0, 0),
                    SegRow("s3", "A2", 2, 2, 2, 0, 0)>>
    /\ assets = <<AssetRow("A1", 5, 5, 1), AssetRow("A2", 5, 5, 1)>>
    /\ correlation = Corr(0)
    /\ options \in {[risk_weight_limit |-> -1, consider_risk |-> m[1],
                     profit_weight |-> m[2], z_score |-> 2] :
                       m \in {<<FALSE, -10>>, <<TRUE, -10>>, <<TRUE, 5>>}}
    /\ grid = {-5, 5, 10, 15}

\* The inputs of a lexicographic run on segments that all lose money.
NegativeProfitInputs ==
    /\ segments = <<SegRow("s1", "A1", 1, -2, 2, 0, 0),
                    SegRow("s2", "A1", 1, -3, 6, 0, 0),
                    SegRow("s3", "A2", 2, -2, 2, 0, 0)>>
    /\ assets = <<AssetRow("A1", 5, 5, 1), AssetRow("A2", 5, 5, 1)>>
    /\ correlation = Corr(0)
    /\ options \in {o \in OptionSets :
                      /\ o.consider_risk
                      /\ o.profit_weight < 0
                      /\ o.risk_weight_limit = 4}
    /\ grid = {-5, 5, 10, 15}

GamsInit ==
    /\ \/ SymmetricInputs
       \/ AsymmetricInputs
       \/ OutOfRangeInputs
       \/ NegativeProfitInputs
    /\ pc = "start"
    /\ equations = {}
    /\ alpha = NoValue
    /\ profit_lo = <<>>
    /\ level = NoValue
    /\ status = NoValue
    /\ solves = <<>>
    /\ output = <<>>
    /\ program = "gamspy"
    /\ original_portfolio = NoValue
    /\ investment = <<>>
    /\ optimized_portfolio = <<>>
    /\ raised = NoValue
    /\ an_asset = NoValue
    /\ calls = 0

GamsNext ==
    \/ Formulate
    \/ LexProfitPhase
    \/ LexRiskPhase
    \/ Weighted
    \/ RiskIgnored
    \/ BuildOutput

SpecGams == GamsInit /\ [][GamsNext]_vars

\* The end-to-end scenario: two assets of one segment each, exposure 1000,
\* profitability 0.05, risk weight 0.3, bounds of 20% both ways, identity
\* correlation.  The relative origination cost is oc.
ScenarioSegments(oc) ==
    <<SegRow("s1", "A1", 1000, 5, 3, 0, oc), SegRow("s2", "A2", 1000, 5, 3, 0, oc)>>

ScenarioAssets == <<AssetRow("A1", 2, 2, 1), AssetRow("A2", 2, 2, 1)>>

ScenarioGrid == {8, 10, 11, 12, 13}

\* The risk is ignored; risk_weight_limit is 0.5 or 0.2.
ScenarioOptions ==
    {[risk_weight_limit |-> l, consider_risk |-> FALSE, profit_weight |-> -10,
      z_score |-> 2] : l \in {5, 2}}

IsScenario == \E oc \in {0, 2, 6} : segments = ScenarioSegments(oc)

\* Tables whose rows come in another order: the segments of asset A1 with
\* the segment of A2 between them, and the asset table with A2 first.
ReorderedInputs ==
    /\ \/ /\ segments = <<SegRow("s1", "A1", 1, 2, 2, 0, 0),
                          SegRow("s3", "A2", 2, 2, 2, 0, 0),
                          SegRow("s2", "A1", 1, 3, 6, 0, 0)>>
          /\ assets = <<AssetRow("A1", 5, 5, 1), AssetRow("A2", 0, 5, 1)>>
       \/ /\ segments = <<SegRow("s1", "A1", 1, 2, 2, 0, 0),
                          SegRow("s2", "A1", 1, 3, 6, 0, 0),
                          SegRow("s3", "A2", 2, 2, 2, 0, 0)>>
          /\ assets = <<AssetRow("A2", 0, 5, 1), AssetRow("A1", 5, 5, 1)>>
    /\ correlation = Corr(0)
    /\ options \in {o \in OptionSets :
                      ~o.consider_risk /\ o.risk_weight_limit = 4}
    /\ grid = {-5, 5, 10, 15}

XpressInit ==
    /\ \/ SymmetricInputs
       \/ AsymmetricInputs
       \/ OutOfRangeInputs
       \/ ReorderedInputs
       \/ /\ segments \in {ScenarioSegments(oc) : oc \in {0, 2, 6}}
          /\ assets = ScenarioAssets
          /\ correlation = Corr(0)
          /\ options \in ScenarioOptions
          /\ grid = ScenarioGrid
    /\ pc = "start"
    /\ equations = {}
    /\ alpha = NoValue
    /\ profit_lo = <<>>
    /\ level = NoValue
    /\ status = NoValue
    /\ solves = <<>>
    /\ output = <<>>
    /\ program = "xpress"
    /\ original_portfolio = NoValue
    /\ investment = <<>>
    /\ optimized_portfolio = <<>>
    /\ raised = NoValue
    /\ an_asset = NoValue
    /\ calls = 0

XpressNext ==
    \/ XFromCsv
    \/ XOptimize
    \/ XNewPortfolio
    \/ XToTables
    \/ XReport

SpecXpress == XpressInit /\ [][XpressNext]_vars

\* Both programs.
Init == GamsInit \/ XpressInit

Next == GamsNext \/ XpressNext

Spec == Init /\ [][Next]_vars

AssetInit ==
    /\ an_asset \in {NewAsset("A1")}
                      \cup {FirstRowAsset("A1", segment) : segment \in SegmentPool}
    /\ calls = 0
    /\ program = "asset"
    /\ pc = "asset"
    /\ segments = <<>>
    /\ assets = <<>>
    /\ correlation = NoValue
    /\ options = NoValue
    /\ grid = {}
    /\ equations = {}
    /\ alpha = NoValue
    /\ profit_lo = <<>>
    /\ level = NoValue
    /\ status = NoValue
    /\ solves = <<>>
    /\ output = <<>>
    /\ original_portfolio = NoValue
    /\ investment = <<>>
    /\ optimized_portfolio = <<>>
    /\ raised = NoValue

AssetNext == AddSegment

SpecAsset == AssetInit /\ [][AssetNext]_vars

----------------------------------------------------------------------------
(* InstanceManager alone: from_csv on a set of tables, then new_portfolio   *)
(* with an allocation of any shape.                                        *)

\* manager.from_csv(df_segments, df_assets, df_correlation_matrix)
MFromCsv ==
    /\ program = "manager"
    /\ pc = "start"
    /\ original_portfolio' = from_csv(segments, assets, correlation)
    /\ pc' = "loaded"
    /\ UNCHANGED <<inputs, gvars, level, status, solves, output, program, investment,
                   optimized_portfolio, raised, an_asset, calls>>

\* The allocations over some of the pairs of a portfolio, with multipliers
\* of the grid.
Allocations(portfolio) ==
    UNION {[keys -> grid] : keys \in SUBSET PortfolioPairs(portfolio)}

\* manager.new_portfolio(original_portfolio, new_distribution)
MNewPortfolio ==
    /\ program = "manager"
    /\ pc = "loaded"
    /\ \E new_distribution \in Allocations(original_portfolio) :
          LET res == new_portfolio(original_portfolio, new_distribution)
          IN  /\ investment' = <<new_distribution>>
              /\ raised' = res.raised
              /\ optimized_portfolio' =
                    IF res.raised = NoValue THEN <<res.portfolio>> ELSE <<>>
              /\ original_portfolio' = res.original
              /\ pc' = IF res.raised = NoValue THEN "rebuilt" ELSE "raised"
    /\ UNCHANGED <<inputs, gvars, level, status, solves, output, program, an_asset,
                   calls>>

\* A correlation table over the assets ids.
CorrOn(ids, off) ==
    [indexed |-> TRUE,
     val |-> [ij \in ids \X ids |-> IF ij[1] = ij[2] THEN 1 ELSE off]]

\* Tables with two segments in one asset, a segment of exposure 0, a segment
\* whose asset has no row in the asset table, a repeated segment id, and no
\* rows at all.
ManagerSegmentTables ==
    {<<SegRow("s1", "A1", 1, 2, 2, 0, 0), SegRow("s2", "A1", 1, 3, 6, 0, 0),
       SegRow("s3", "A2", 2, 2, 2, 0, 0)>>,
     <<SegRow("s1", "A1", 0, 2, 2, 0, 0), SegRow("s3", "A2", 3, 2, 2, 0, 0)>>,
     <<SegRow("s1", "A1", 1, 2, 2, 0, 0), SegRow("s4", "A3", 2, 3, 6, 0, 0)>>,
     <<SegRow("s1", "A1", 1, 2, 2, 0, 0), SegRow("s1", "A1", 2, 3, 6, 0, 0),
       SegRow("s3", "A2", 2, 2, 2, 0, 0)>>,
     <<SegRow("s1", "A1", 1, 2, 2, 0, 0), SegRow("s3", "A2", 3, 2, 6, 0, 0)>>,
     <<>>}

ManagerAssetTables ==
    {<<AssetRow("A1", 5, 5, 1), AssetRow("A2", 2, 3, 1)>>,
     <<AssetRow("A1", 0, 0, 2)>>}

ManagerCorrelations == {CorrOn({"A1", "A2"}, 0), CorrOn({"A1"}, 0)}

ManagerInit ==
    /\ segments \in ManagerSegmentTables
    /\ assets \in ManagerAssetTables
    /\ correlation \in ManagerCorrelations
    /\ options = NoValue
    /\ grid = {0, 5, 10, 15, 25}
    /\ pc = "start"
    /\ equations = {}
    /\ alpha = NoValue
    /\ profit_lo = <<>>
    /\ level = NoValue
    /\ status = NoValue
    /\ solves = <<>>
    /\ output = <<>>
    /\ program = "manager"
    /\ original_portfolio = NoValue
    /\ investment = <<>>
    /\ optimized_portfolio = <<>>
    /\ raised = NoValue
    /\ an_asset = NoValue
    /\ calls = 0

ManagerNext ==
    \/ MFromCsv
    \/ MNewPortfolio

SpecManager == ManagerInit /\ [][ManagerNext]_vars

----------------------------------------------------------------------------
(* Properties *)

RiskIgnoredMode == ~options.consider_risk

WeightedMode == options.consider_risk /\ options.profit_weight >= 0

LexicographicMode == options.consider_risk /\ options.profit_weight < 0

\* The program is past its last solver invocation.
Solved == pc \in {"solved", "done", "optimized", "rebuilt", "raised", "reported"}

HasConstraint6(s) == "risk_equation" \in s.equations

C3_PhaseOneFailureStopsPhaseTwo ==
    (/\ program = "gamspy"
     /\ LexicographicMode
     /\ Len(solves) >= 1
     /\ solves[1].status \notin Usable)
        => /\ Len(solves) = 1
           /\ profit_lo = <<>>
           /\ "risk_equation" \notin equations

\* C4 as stated: once a solve has returned a status that is not usable,
\* there is no allocation (not even an empty one), no rebalanced Portfolio
\* and no output, and the run ends with a SolverStatusError.
C4_FailureRaisesSolverStatusError ==
    (\E i \in 1..Len(solves) : solves[i].status \notin Usable)
        => /\ investment = <<>>
           /\ optimized_portfolio = <<>>
           /\ output = <<>>
           /\ pc \in {"done", "raised"} => raised = "SolverStatusError"

\* The sum of f(segment) over the segments of a Portfolio object.
SumOverSegments(portfolio, f(_)) ==
    LET prs == PortfolioPairs(portfolio)
    IN  SumSet([p \in prs |-> f(portfolio.assets.at[p[1]].segments.at[p[2]])], prs)

RiskWeightedOf(segment) == segment.risk_weight * segment.exposure

ExposureOf(segment) == segment.exposure

\* C5 as stated: a rebalanced Portfolio that was returned has a weighted
\* average risk weight, on the exposures after the rebuild rounding, of at
\* most risk_weight_limit.
C5_RiskCeilingAfterRounding ==
    optimized_portfolio # <<>> =>
        SumOverSegments(optimized_portfolio[1], RiskWeightedOf)
            <= options.risk_weight_limit
                 * SumOverSegments(optimized_portfolio[1], ExposureOf)

\* The allocation a usable solve produced.
Allocation == IF program = "xpress" THEN investment[1] ELSE level.x

Accepted ==
    /\ status \in Usable
    /\ program = "xpress" => investment # <<>>

\* The exposure of asset a in the segments table.
OriginalExposure(a) ==
    LET own == {i \in DOMAIN segments : segments[i].asset = a}
    IN  SumSet([i \in own |-> segments[i].exposure], own)

\* E[a]: the sum over the segments of a of exposure times multiplier (tenths).
RealizedExposure(a) ==
    LET own == {i \in DOMAIN segments : segments[i].asset = a}
    IN  SumSet([i \in own |->
                   segments[i].exposure * Allocation[<<a, segments[i].segment_id>>]],
               own)

\* C6: in every accepted solution the realized exposure of every asset of
\* the asset table lies between (1 - max_exposure_decrease) and
\* (1 + max_exposure_increase) times its original exposure.
C6_BoundContainment ==
    Accepted =>
        \A i \in DOMAIN assets :
            LET a == assets[i].asset
            IN  /\ (10 - assets[i].max_exposure_decrease) * OriginalExposure(a)
                      <= RealizedExposure(a)
                /\ RealizedExposure(a)
                      <= (10 + assets[i].max_exposure_increase) * OriginalExposure(a)

\* An optimal solution with one asset at its upper and one at its lower bound.
C6_Witness ==
    /\ status = "optimal"
    /\ Accepted
    /\ \E i, j \in DOMAIN assets :
          /\ assets[i].max_exposure_increase > 0
          /\ RealizedExposure(assets[i].asset)
                = (10 + assets[i].max_exposure_increase) * OriginalExposure(assets[i].asset)
          /\ assets[j].max_exposure_decrease > 0
          /\ RealizedExposure(assets[j].asset)
                = (10 - assets[j].max_exposure_decrease) * OriginalExposure(assets[j].asset)

\* C7: in every accepted allocation every pair has multiplier = 1 + inc - dec
\* with inc, dec and the multiplier non-negative.
C7_SplitIdentity ==
    Accepted =>
        /\ Allocation = level.x
        /\ \A p \in DOMAIN level.x :
              /\ level.x[p] = 10 + level.inc[p] - level.dec[p]
              /\ level.inc[p] >= 0
              /\ level.dec[p] >= 0
              /\ level.x[p] >= 0

\* An accepted allocation that raises one pair and lowers another, one of
\* them with both an increase and a decrease.
C7_Witness ==
    /\ Accepted
    /\ \E p, q \in DOMAIN level.x : level.x[p] > 10 /\ level.x[q] < 10
    /\ \E p \in DOMAIN level.x : level.inc[p] > 0 /\ level.dec[p] > 0

\* The relative origination cost of the end-to-end scenario (percent).
ScenarioCost == segments[1].rel_origination_cost

Scenario8 ==
    /\ program = "xpress"
    /\ IsScenario
    /\ options.risk_weight_limit = 5
    /\ ~options.consider_risk

Scenario9 ==
    /\ program = "xpress"
    /\ IsScenario
    /\ options.risk_weight_limit = 2

\* C8 (as amended): in the risk-ignored scenario with a relative origination
\* cost below the profitability 0.05, the optimal solution has multiplier 1.2
\* on each segment, the net profit is 120 minus the cost of the two increases
\* of 200, and the rebuilt assets have exposure 1200.
C8_ScenarioOptimum ==
    (Scenario8 /\ ScenarioCost < 5 /\ status = "optimal" /\ investment # <<>>)
        => /\ \A p \in DOMAIN investment[1] : investment[1][p] = 12
           /\ solves[1].net_profit = 120000 - ScenarioCost * 1000 * 2 * 2
           /\ optimized_portfolio # <<>> =>
                 \A a \in DOMAIN optimized_portfolio[1].assets.at :
                     optimized_portfolio[1].assets.at[a].total_exposure = 1200

\* The scenario with a positive cost, solved to optimality and rebuilt.
C8_Witness ==
    /\ Scenario8
    /\ ScenarioCost = 2
    /\ status = "optimal"
    /\ pc = "done"
    /\ solves[1].net_profit = 112000
    /\ \A i \in DOMAIN output[1].df_segments : output[1].df_segments[i].exposure = 1200

\* C8 as stated: in the risk-ignored scenario the optimal solution has
\* multiplier 1.2 on each segment and the net profit is 120 minus the
\* transaction cost of the increase.
C8_ScenarioOptimumAsStated ==
    (Scenario8 /\ status = "optimal" /\ investment # <<>>)
        => /\ \A p \in DOMAIN investment[1] : investment[1][p] = 12
           /\ solves[1].net_profit = 120000 - ScenarioCost * 1000 * 2 * 2

\* C9 (as amended): with risk_weight_limit 0.2 on the scenario data the
\* problem has no feasible point; the solve returns no usable status,
\* optimize_portfolio returns an empty allocation, new_portfolio fails on its
\* first lookup and no rebalanced Portfolio or output is produced.
C9_ScenarioInfeasible ==
    (Scenario9 /\ Solved)
        => /\ status \in {"infeasible", "error"}
           /\ investment = << <<>> >>
           /\ optimized_portfolio = <<>>
           /\ output = <<>>
           /\ pc = "raised" => raised = "KeyError"

\* The scenario with limit 0.2 reported infeasible, the run ended.
C9_Witness ==
    /\ Scenario9
    /\ status = "infeasible"
    /\ pc = "raised"

\* C9 as stated: with risk_weight_limit 0.2 on the scenario data a solve that
\* did not end in a solver error yields a solution whose weighted risk weight
\* is exactly 0.2 and whose total exposure is below 2400.
C9_ScenarioBindingAsStated ==
    (Scenario9 /\ Solved /\ status # "error")
        => /\ status \in Usable
           /\ LET d == XpData(original_portfolio, options)
              IN  /\ RiskWeightedExposure(d, level.x) = 2 * TotalExposure(d, level.x)
                  /\ TotalExposure(d, level.x) < 24000

\* The sum of f(segment) over the current segments of an Asset object.
SumOverAsset(a, f(_)) ==
    SumSet([k \in DOMAIN a.segments.at |-> f(a.segments.at[k])], DOMAIN a.segments.at)

ProfitOf(segment) == segment.exposure * segment.profitability

\* C10 as stated: after any sequence of add_segment calls the totals of the
\* asset are the sums over its current segments, and its average risk weight
\* is total risk-weighted value / total exposure.
C10_TotalsMatchSegments ==
    program = "asset" =>
        /\ an_asset.total_exposure = SumOverAsset(an_asset, ExposureOf)
        /\ an_asset.total_profit = SumOverAsset(an_asset, ProfitOf)
        /\ an_asset.total_risk_weighted_assets = SumOverAsset(an_asset, RiskWeightedOf)
        /\ an_asset.total_exposure > 0 =>
              FracEq(an_asset.average_risk_weight,
                     <<an_asset.total_risk_weighted_assets, an_asset.total_exposure>>)

\* The Portfolio objects that exist in the state: the one from_csv returned
\* and the one new_portfolio returned.
Portfolios ==
    (IF pc = "start" THEN <<>> ELSE <<original_portfolio>>) \o optimized_portfolio

AssetsOf(portfolio) == {portfolio.assets.at[a] : a \in DOMAIN portfolio.assets.at}

\* An object with total exposure 0 has average risk weight 0.
ZeroAverageAtZeroExposure(obj) ==
    obj.total_exposure = 0 => obj.average_risk_weight[1] = 0

\* C11 as stated: an Asset or Portfolio whose total exposure is 0 has average
\* risk weight 0, and no division error is raised, whether it was built by
\* from_csv or by new_portfolio.
C11_ZeroExposureAverageZero ==
    /\ raised # "ZeroDivisionError"
    /\ \A n \in DOMAIN Portfolios :
          /\ ZeroAverageAtZeroExposure(Portfolios[n])
          /\ \A asset \in AssetsOf(Portfolios[n]) : ZeroAverageAtZeroExposure(asset)

\* The sum of f over the assets of a portfolio.
SumOverAssets(portfolio, f(_)) ==
    LET ids == DOMAIN portfolio.assets.at
    IN  SumSet([a \in ids |-> f(portfolio.assets.at[a])], ids)

TotalExposureOf(asset) == asset.total_exposure

TotalProfitOf(asset) == asset.total_profit

TotalRiskWeightedOf(asset) == asset.total_risk_weighted_assets

\* The aggregates of a portfolio are the sums of the totals of its assets.
AggregatesMirrorAssets(portfolio) ==
    /\ portfolio.total_exposure = SumOverAssets(portfolio, TotalExposureOf)
    /\ portfolio.total_profit = SumOverAssets(portfolio, TotalProfitOf)
    /\ portfolio.total_risk_weighted_assets
          = SumOverAssets(portfolio, TotalRiskWeightedOf)
    /\ portfolio.total_exposure > 0 =>
          FracEq(portfolio.average_risk_weight,
                 <<portfolio.total_risk_weighted_assets, portfolio.total_exposure>>)

\* C12: every Portfolio that was constructed, by from_csv or by
\* new_portfolio, has total exposure, total profit and total risk-weighted
\* value equal to the sums of the totals of its assets, and an average risk
\* weight of total risk-weighted value / total exposure.
C12_PortfolioAggregates ==
    \A n \in DOMAIN Portfolios : AggregatesMirrorAssets(Portfolios[n])

\* Both Portfolios exist, each over two assets of positive exposure, and
\* their totals differ.
C12_Witness ==
    /\ pc = "rebuilt"
    /\ \A n \in DOMAIN Portfolios :
          /\ Cardinality(AssetsOf(Portfolios[n])) = 2
          /\ \A asset \in AssetsOf(Portfolios[n]) : asset.total_exposure > 0
    /\ optimized_portfolio[1].total_exposure # original_portfolio.total_exposure
    /\ optimized_portfolio[1].total_risk_weighted_assets
          # 2 * optimized_portfolio[1].total_exposure

\* The assets that segment rows reference and the asset table has no row for.
AssetsWithoutRow ==
    {segments[i].asset : i \in DOMAIN segments} \ {assets[j].asset : j \in DOMAIN assets}

\* from_csv was called and has ended.
FromCsvEnded == pc # "start"

\* C13 as stated: when a segment row references an asset that has no row in
\* the asset table, from_csv ends with ValidationError and returns no
\* Portfolio; no returned Portfolio contains such an asset.
C13_MissingAssetRejected ==
    (FromCsvEnded /\ AssetsWithoutRow # {}) =>
        /\ raised = "ValidationError"
        /\ Portfolios = <<>>

\* The row labels and the column labels of a correlation table.
RowIndex(matrix) == {ij[1] : ij \in DOMAIN matrix.val}

ColumnIndex(matrix) == {ij[2] : ij \in DOMAIN matrix.val}

AssetIdsOf(portfolio) == DOMAIN portfolio.assets.at

\* C14 as stated: the Portfolio from_csv returns has a correlation matrix
\* whose row and column index sets equal its asset identifier set, and tables
\* whose correlation matrix lacks a row or column of a portfolio asset end in
\* ValidationError with no Portfolio returned.
C14_CorrelationIndexMatchesAssets ==
    FromCsvEnded =>
        LET ids == {segments[i].asset : i \in DOMAIN segments}
        IN  IF ids \subseteq RowIndex(correlation) /\ ids \subseteq ColumnIndex(correlation)
            THEN /\ RowIndex(original_portfolio.correlation_matrix)
                       = AssetIdsOf(original_portfolio)
                 /\ ColumnIndex(original_portfolio.correlation_matrix)
                       = AssetIdsOf(original_portfolio)
            ELSE /\ raised = "ValidationError"
                 /\ Portfolios = <<>>

\* new_portfolio was called and has ended, by a return or by an exception.
NewPortfolioEnded ==
    pc \in {"rebuilt", "raised", "done", "reported"} /\ investment # <<>>

\* The pairs of the original portfolio that the allocation has no entry for.
MissingPairs == PortfolioPairs(original_portfolio) \ DOMAIN investment[1]

\* C15 as stated: when the allocation lacks an entry for a pair of the
\* original portfolio, the empty allocation included, new_portfolio ends with
\* ValidationError and returns no Portfolio.
C15_MissingPairRaisesValidationError ==
    (NewPortfolioEnded /\ MissingPairs # {}) =>
        /\ raised = "ValidationError"
        /\ optimized_portfolio = <<>>

\* v is n / 10 rounded to the nearest integer, a half to the even integer.
IsRounded(n, v) ==
    /\ Abs(10 * v - n) <= 5
    /\ Abs(10 * v - n) = 5 => v % 2 = 0

\* The totals of an asset are the sums over its segments.
TotalsMirrorSegments(asset) ==
    /\ asset.total_exposure = SumOverAsset(asset, ExposureOf)
    /\ asset.total_profit = SumOverAsset(asset, ProfitOf)
    /\ asset.total_risk_weighted_assets = SumOverAsset(asset, RiskWeightedOf)
    /\ asset.total_exposure > 0 =>
          FracEq(asset.average_risk_weight,
                 <<asset.total_risk_weighted_assets, asset.total_exposure>>)

\* C16: for an allocation that covers every pair of the original portfolio,
\* new_portfolio returns a Portfolio with the same asset and segment
\* identifiers, where every segment's exposure is round(multiplier x original
\* exposure) and every total of an asset and of the portfolio is the sum over
\* the new exposures (the average risk weight being the quotient of the
\* totals).
C16_RebuiltFromRoundedExposures ==
    (NewPortfolioEnded /\ MissingPairs = {}) =>
        /\ raised = NoValue
        /\ optimized_portfolio # <<>>
        /\ LET new == optimized_portfolio[1]
               old == original_portfolio
           IN  /\ AssetIdsOf(new) = AssetIdsOf(old)
               /\ PortfolioPairs(new) = PortfolioPairs(old)
               /\ \A p \in PortfolioPairs(old) :
                     IsRounded(investment[1][p]
                                 * old.assets.at[p[1]].segments.at[p[2]].exposure,
                               new.assets.at[p[1]].segments.at[p[2]].exposure)
               /\ \A asset \in AssetsOf(new) : TotalsMirrorSegments(asset)
               /\ AggregatesMirrorAssets(new)
               /\ new.total_exposure = SumOverSegments(new, ExposureOf)
               /\ new.total_risk_weighted_assets = SumOverSegments(new, RiskWeightedOf)
               /\ new.total_profit = SumOverSegments(new, ProfitOf)

\* A covering allocation was applied to a portfolio with an asset of two
\* segments, one product multiplier x exposure lies halfway between two
\* integers, and the total exposure changed.
C16_Witness ==
    /\ pc = "rebuilt"
    /\ MissingPairs = {}
    /\ \E asset \in AssetsOf(original_portfolio) : Len(asset.segments.keys) = 2
    /\ \E p \in PortfolioPairs(original_portfolio) :
          (investment[1][p]
             * original_portfolio.assets.at[p[1]].segments.at[p[2]].exposure) % 10 = 5
    /\ optimized_portfolio[1].total_exposure # original_portfolio.total_exposure

\* C17: every asset of the original portfolio is in the Portfolio that
\* new_portfolio returns with the minimum and maximum relative exposure it
\* has in the original, whatever the allocation.
C17_BoundsCarriedOver ==
    optimized_portfolio # <<>> =>
        \A a \in AssetIdsOf(original_portfolio) :
            /\ a \in AssetIdsOf(optimized_portfolio[1])
            /\ optimized_portfolio[1].assets.at[a].min_rel_exposure
                  = original_portfolio.assets.at[a].min_rel_exposure
            /\ optimized_portfolio[1].assets.at[a].max_rel_exposure
                  = original_portfolio.assets.at[a].max_rel_exposure

\* A Portfolio was rebuilt with changed exposures from an original in which
\* an asset has bounds that the asset table set to other values than the
\* defaults.
C17_Witness ==
    /\ optimized_portfolio # <<>>
    /\ \E asset \in AssetsOf(original_portfolio) :
          /\ asset.min_rel_exposure # DefaultMinRelExposure
          /\ asset.max_rel_exposure # DefaultMaxRelExposure
          /\ optimized_portfolio[1].assets.at[asset.asset_id].total_exposure
                # asset.total_exposure

\* C18: once from_csv has returned the original Portfolio, no step of the
\* run (optimize_portfolio, new_portfolio, to_tables) changes it: segment
\* exposures, asset totals and bounds, portfolio totals and correlation
\* matrix stay what they were.
C18_OriginalNeverMutated ==
    [][FromCsvEnded => original_portfolio' = original_portfolio]_vars

\* The run went through optimize_portfolio, new_portfolio and to_tables, and
\* the rebuilt Portfolio has a segment exposure other than the original's.
C18_Witness ==
    /\ program = "xpress"
    /\ pc = "done"
    /\ \E p \in PortfolioPairs(original_portfolio) :
          optimized_portfolio[1].assets.at[p[1]].segments.at[p[2]].exposure
              # original_portfolio.assets.at[p[1]].segments.at[p[2]].exposure

\* Every multiplier of the allocation is 1.
AllMultipliersOne == \A p \in DOMAIN investment[1] : investment[1][p] = 10

\* segment_id is a unique key of the segments table.
SegmentIdsUnique ==
    \A i, j \in DOMAIN segments :
        segments[i].segment_id = segments[j].segment_id => i = j

\* The four aggregates of two objects are equal.
SameAggregates(x, y) ==
    /\ x.total_exposure = y.total_exposure
    /\ x.total_profit = y.total_profit
    /\ x.total_risk_weighted_assets = y.total_risk_weighted_assets
    /\ FracEq(x.average_risk_weight, y.average_risk_weight)

ProblemData ==
    IF program = "gamspy" THEN Data ELSE XpData(original_portfolio, options)

RECURSIVE SumInOrder(_, _, _)
\* f[order[1]] + ... + f[order[n]], added in this order.
SumInOrder(f, order, n) ==
    IF n = 0 THEN 0 ELSE SumInOrder(f, order, n - 1) + f[order[n]]

\* The double sum of the variance with both loops running over the assets in
\* the given order.
VarianceInOrder(d, x, order) ==
    LET E == [a \in d.assetIds |-> AssetExposure(d, x, a)]
        inner(i) ==
            SumInOrder([j \in d.assetIds |->
                           d.profit_stdev[i] * d.profit_stdev[j]
                         * d.correlation_matrix[<<i, j>>] * E[i] * E[j]],
                       order, Len(order))
    IN  SumInOrder([i \in d.assetIds |-> inner(i)], order, Len(order))

\* The orderings of a set of asset ids.
Orderings(ids) ==
    {order \in [1..Cardinality(ids) -> ids] : {order[n] : n \in DOMAIN order} = ids}

Symmetric(matrix) ==
    \A ij \in DOMAIN matrix :
        /\ <<ij[2], ij[1]>> \in DOMAIN matrix
        /\ matrix[ij] = matrix[<<ij[2], ij[1]>>]

\* A solver invocation was given a model with the downside constraint, which
\* holds the variance.
VarianceFormulated == \E n \in DOMAIN solves : HasConstraint6(solves[n])

\* C20 as stated: the variance double sum at the returned point has the same
\* value for every ordering of the assets, and a model with the variance is
\* only formulated on a correlation matrix that is symmetric.
C20_VarianceSymmetryRequired ==
    VarianceFormulated =>
        /\ \A order \in Orderings(ProblemData.assetIds) :
              VarianceInOrder(ProblemData, level.x, order)
                  = VarianceNumerator(ProblemData, level.x)
        /\ Symmetric(correlation.val)

\* The first half of C20 alone: the value of the double sum does not depend
\* on the ordering of the assets.
VarianceOrderInvariant ==
    VarianceFormulated =>
        \A order \in Orderings(ProblemData.assetIds) :
            VarianceInOrder(ProblemData, level.x, order)
                = VarianceNumerator(ProblemData, level.x)

\* The configuration values are in their ranges.  The model holds the
\* z-score that norm.ppf made of the confidence interval; the risk weight
\* limit is a fraction that is not negative.
ConfigurationInRange == options.risk_weight_limit >= 0

\* The run has entered the formulation: main() of the GAMSPy program, or
\* optimize_portfolio after from_csv has returned.
FormulationEntered ==
    \/ program = "gamspy" /\ pc # "start"
    \/ program = "xpress" /\ pc \notin {"start", "loaded"}

\* C21 as stated: a run with a configuration value out of range ends in
\* ConfigurationError during formulation; no solve is made, and no allocation
\* or Portfolio is produced.
C21_OutOfRangeConfigurationRejected ==
    (FormulationEntered /\ ~ConfigurationInRange) =>
        /\ raised = "ConfigurationError"
        /\ solves = <<>>
        /\ investment = <<>>
        /\ optimized_portfolio = <<>>

\* The one solve of weighted mode ended with status optimal.
WeightedOptimal ==
    /\ program \in {"gamspy", "xpress"}
    /\ WeightedMode
    /\ Len(solves) = 1
    /\ status = "optimal"

\* The points the weighted model allows: its constraints with the downside
\* constraint, no bound on the net profit.
WeightedFeasible ==
    FeasiblePoints(ProblemData, solves[1].equations, <<>>, options.profit_weight)

\* The points the model of risk-ignored mode allows on the same data.
RiskIgnoredFeasible ==
    FeasiblePoints(ProblemData,
                   IF program = "gamspy" THEN BaseEquations ELSE XpConstraints(FALSE),
                   <<>>, 10)

\* C22: in weighted mode the solver is given the downside constraint and the
\* weight profit_weight, and an optimal point maximises profit_weight x
\* netProfit - (1 - profit_weight) x D over the model; with profit_weight 1
\* its netProfit is the best netProfit of risk-ignored mode on the same data,
\* with profit_weight 0 its D is the least D of the model.
C22_WeightedObjective ==
    WeightedOptimal =>
        LET w == options.profit_weight
        IN  /\ solves[1].alpha = w
            /\ HasConstraint6(solves[1])
            /\ level \in WeightedFeasible
            /\ \A q \in WeightedFeasible :
                  w * NetProfit(ProblemData, q) - (10 - w) * q.D
                      <= w * NetProfit(ProblemData, level) - (10 - w) * level.D
            /\ w = 10 =>
                  /\ \E q \in RiskIgnoredFeasible :
                        NetProfit(ProblemData, q) = NetProfit(ProblemData, level)
                  /\ \A q \in RiskIgnoredFeasible :
                        NetProfit(ProblemData, q) <= NetProfit(ProblemData, level)
            /\ w = 0 => \A q \in WeightedFeasible : level.D <= q.D

\* Weighted mode ended optimal with profit_weight 1 at a point of positive
\* downside.
C22_Witness ==
    /\ WeightedOptimal
    /\ options.profit_weight = 10
    /\ level.D > 0

\* Weighted mode ended optimal with profit_weight 0 on a model that has
\* points of larger downside and points of larger net profit.
C22_WitnessRiskOnly ==
    /\ WeightedOptimal
    /\ options.profit_weight = 0
    /\ \E q \in WeightedFeasible : q.D > level.D
    /\ \E q \in WeightedFeasible :
          NetProfit(ProblemData, q) > NetProfit(ProblemData, level)

\* C23 as stated: no step of a run changes the input tables (segments,
\* assets, correlation) or the configuration values the run was given, so
\* that a later run on the same objects starts from what this run started
\* from.
C23_InputsNeverChanged ==
    [][/\ segments' = segments
       /\ assets' = assets
       /\ correlation' = correlation
       /\ options' = options]_vars

\* The result tables of the application were filled.
Reported == program = "xpress" /\ pc = "reported"

\* C24 as stated: in the result tables of the application every segment row
\* holds the exposure of that segment in the rebuilt Portfolio, which is
\* round(multiplier x original exposure), and every asset row holds the total
\* exposure and average risk weight of that asset in the rebuilt Portfolio,
\* whatever the row order of the input tables.
C24_ReportedRowsMatchIds ==
    Reported =>
        LET report == output[2]
            new == optimized_portfolio[1]
        IN  /\ \A i \in DOMAIN report.Segments :
                  LET row == report.Segments[i]
                  IN  /\ row.optimized_exposure
                            = new.assets.at[row.asset].segments.at[row.segment_id].exposure
                      /\ IsRounded(investment[1][<<row.asset, row.segment_id>>]
                                     * row.exposure,
                                   row.optimized_exposure)
            /\ \A j \in DOMAIN report.Assets :
                  LET row == report.Assets[j]
                  IN  /\ row.optimized_exposure = new.assets.at[row.asset].total_exposure
                      /\ FracEq(row.average_risk_weight,
                                new.assets.at[row.asset].average_risk_weight)

\* The rows of both input tables in the order in which to_tables lists them.
RowsInPortfolioOrder ==
    /\ \A i \in DOMAIN segments :
          segments[i].segment_id = output[1].df_segments[i].segment_id
    /\ \A j \in DOMAIN assets : assets[j].asset = output[1].df_assets[j].asset

\* What holds of the report: when the input rows are in the order of
\* to_tables, every row holds the values of its own segment or asset.
ReportedRowsMatchInPortfolioOrder ==
    (Reported /\ RowsInPortfolioOrder) => C24_ReportedRowsMatchIds

\* Both phases of a lexicographic run of the GAMSPy program were solved, the
\* first with status optimal.
PhaseOneOptimalPhaseTwoSolved ==
    /\ program = "gamspy"
    /\ LexicographicMode
    /\ Len(solves) = 2
    /\ solves[1].status = "optimal"

\* C25 as stated: when phase 1 ended optimal, its net profit satisfies the
\* lower bound installed for phase 2 and phase 2 is not infeasible, for every
\* sign of the phase-1 net profit.
C25_PhaseOneOptimumStaysFeasible ==
    PhaseOneOptimalPhaseTwoSolved =>
        /\ 10 * solves[1].net_profit >= solves[2].lo[1]
        /\ solves[2].status # "infeasible"

\* What holds: with a phase-1 net profit that is not negative the phase-1
\* optimum satisfies the bound of phase 2, and phase 2 is not infeasible.
PhaseOneOptimumStaysFeasibleIfNotNegative ==
    (PhaseOneOptimalPhaseTwoSolved /\ solves[1].net_profit >= 0) =>
        /\ 10 * solves[1].net_profit >= solves[2].lo[1]
        /\ solves[2].status # "infeasible"

====
